---- MODULE Spec2Model ----
(***************************************************************************)
(* Model of the two sample scripts that drive a hosted agent service:      *)
(*   main.py      one-shot CLI script (synchronous, time.sleep polling)    *)
(*   mainchat.py  chat UI; one module-level AzureAIAgentHandler shared by  *)
(*                every chat session, cooperative tasks suspended at the   *)
(*                awaits                                                   *)
(* The hosted service (agents, threads, messages, runs) is the             *)
(* environment: it owns the run status life cycle and is modelled as the   *)
(* most general service the scripts' calls allow.  Every service call may  *)
(* raise.                                                                  *)
(***************************************************************************)
EXTENDS Integers, Sequences, FiniteSets, TLC

\* ------------------------------------------------------------- bounds
MaxCalls == 2        \* tool calls one pending action of the service may carry

\* ------------------------------------------------------------- universe
Progs == {"cli", "chat"}
Sessions == {1, 2}                 \* chat sessions (browser connections)
TaskIds == {1, 2}                  \* message-handling tasks (the CLI uses task 1)
EnvVars == {"PROJECT_ENDPOINT", "MODEL_DEPLOYMENT_NAME", "MCP_SERVER_URL",
            "MCP_SERVER_LABEL", "MCP_SERVER_TOKEN"}
EnvValues == {"absent", "empty", "set"}     \* os.environ.get: None, "", a value
None == 0                                   \* Python None for ids

\* main.py:46, mainchat.py:59
required_vars == <<"PROJECT_ENDPOINT", "MODEL_DEPLOYMENT_NAME", "MCP_SERVER_URL", "MCP_SERVER_LABEL">>

\* main.py:108, mainchat.py:127: the statuses that keep the loop polling
PollStatuses == {"queued", "in_progress", "requires_action"}
Errors == {"rate_limit_exceeded", "server_error"}      \* run.last_error values

VARIABLES
    prog,        \* which script this process runs
    env,         \* os.environ after load_dotenv
    handler,     \* module-level state: project_client, agents_client, agent, thread, mcp_tool
    sess,        \* chat: per-session coroutine position and cl.user_session
    tasks,       \* per message (CLI: the one message): the task's position and run
    nTasks,      \* tasks started so far
    valueErrors, \* every ValueError raised by the configuration check
    step,        \* what the step just taken did, in order: its calls, prints and return
    svc          \* the hosted service: clients, agents, threads, runs, messages

vars == <<prog, env, handler, sess, tasks, nTasks, valueErrors, step, svc>>

\* ------------------------------------------------------------- pure helpers
Range(s) == {s[i] : i \in 1..Len(s)}

RECURSIVE SelectSeqBy(_, _)
\* s filtered by membership of its elements in the set keep, order preserved
SelectSeqBy(s, keep) ==
    IF s = <<>> THEN <<>>
    ELSE IF Head(s) \in keep THEN <<Head(s)>> \o SelectSeqBy(Tail(s), keep)
         ELSE SelectSeqBy(Tail(s), keep)

\* `not os.environ.get(var)`: absent and empty are both falsy
Falsy(v) == v \in {"absent", "empty"}

\* the check stopping at the first missing variable
MissingVarsFirstOnly(e) ==
    LET all == SelectSeqBy(required_vars, {v \in EnvVars : Falsy(e[v])})
    IN IF all = <<>> THEN <<>> ELSE <<Head(all)>>

\* missing_vars = [var for var in required_vars if not os.environ.get(var)]
MissingVars(e) == SelectSeqBy(required_vars, {v \in EnvVars : Falsy(e[v])})

\* ValueError(f"Missing required environment variables: {', '.join(missing_vars)}")
MissingError(missing) == <<"Missing required environment variables: ", missing>>

\* McpTool(...) followed by `if mcp_server_token: update_headers(...)`
NewMcpTool(e) ==
    [made     |-> TRUE,
     headers  |-> IF Falsy(e["MCP_SERVER_TOKEN"]) THEN <<>>
                  ELSE <<"Authorization", "Bearer token">>,
     approval |-> "always"]

\* self.mcp_tool = None
NoTool == [made |-> FALSE, headers |-> <<>>, approval |-> "always"]

\* AzureAIAgentHandler.__init__ (the CLI's module-level names before assignment)
NoHandler == [project_client |-> None, agents_client |-> None, agent |-> None,
              thread |-> None, mcp_tool |-> NoTool]

\* a message-handling task: where it is, whose message it handles, its run's id
NoTask == [pc |-> "free", sess |-> None, run |-> None]

NoSession == [pc |-> "idle", agent_ready |-> FALSE, agent_id |-> None, thread_id |-> None]

NoStep == [task |-> None, events |-> <<>>]

NoService == [clients |-> 0, closed |-> {}, agents |-> 0, threads |-> 0,
              runs |-> <<>>, msgs |-> <<>>]

\* ------------------------------------------------------------- the service's records
\* one thing a step did: a call (raised: it raised), a print, a return
Ev(op, run, thread, arg, raised) ==
    [op |-> op, run |-> run, thread |-> thread, arg |-> arg, raised |-> raised]

\* what runs.get / runs.create hand back: the fields the scripts read
Snapshot(r) ==
    [status |-> r.status, action |-> r.action, calls |-> r.calls,
     last_error |-> r.last_error]

\* runs.create called with the id of the first thread ever made
NewRunFirstThread(thread, agent, status, err) ==
    [thread |-> 1, agent |-> agent, status |-> status, action |-> "none",
     calls |-> <<>>, last_error |-> err]

NewRun(thread, agent, status, err) ==
    [thread |-> thread, agent |-> agent, status |-> status, action |-> "none",
     calls |-> <<>>, last_error |-> err]

RECURSIVE Reverse(_)
Reverse(s) == IF s = <<>> THEN <<>> ELSE Reverse(Tail(s)) \o <<Head(s)>>

RECURSIVE OfThread(_, _)
OfThread(msgs, thread) ==
    IF msgs = <<>> THEN <<>>
    ELSE IF Head(msgs).thread = thread THEN <<Head(msgs)>> \o OfThread(Tail(msgs), thread)
         ELSE OfThread(Tail(msgs), thread)

\* messages.list(thread_id=...): the thread's messages, newest first
ListMessages(service, thread) == Reverse(OfThread(service.msgs, thread))

\* ------------------------------------------------------------- the poll loop's pieces
\* the list without "in_progress"
ShouldContinueNoInProgress(status) == status \in {"queued", "requires_action"}

\* the list with "completed" added
ShouldContinueCompleted(status) == status \in PollStatuses \cup {"completed"}

\* the list with "failed" added: a failed run is polled again
ShouldContinueFailed(status) == status \in PollStatuses \cup {"failed"}

\* while run.status in ["queued", "in_progress", "requires_action"]
ShouldContinue(status) == status \in PollStatuses

\* run.status == "requires_action" and isinstance(run.required_action, SubmitToolApprovalAction)
NeedsApproval(snap) == snap.status = "requires_action" /\ snap.action = "approval"

\* `if tool_calls is None`: an empty list does not cancel
ShouldCancelNever(tool_calls) == FALSE

\* cancel whenever the list holds no MCP tool call
ShouldCancelNoMcp(tool_calls) == \A i \in 1..Len(tool_calls) : tool_calls[i].type # "mcp"

\* `if not tool_calls`
ShouldCancel(tool_calls) == tool_calls = <<>>

\* the approval built without the tool's headers
ToolApprovalNoHeaders(id, headers) == [tool_call_id |-> id, approve |-> TRUE, headers |-> <<>>]

\* ToolApproval(tool_call_id=tool_call.id, approve=True, headers=mcp_tool.headers)
ToolApproval(id, headers) == [tool_call_id |-> id, approve |-> TRUE, headers |-> headers]

RECURSIVE BuildApprovalsTwice(_, _, _)
\* the append executed twice per tool call
BuildApprovalsTwice(tool_calls, bad, headers) ==
    IF tool_calls = <<>> THEN <<>>
    ELSE LET c == Head(tool_calls)
             rest == BuildApprovalsTwice(Tail(tool_calls), bad, headers)
         IN IF c.type = "mcp" /\ c.id \notin bad
            THEN <<ToolApproval(c.id, headers), ToolApproval(c.id, headers)>> \o rest
            ELSE rest

RECURSIVE BuildApprovalsAbort(_, _, _)
\* the try/except around the whole for loop: the first failure ends the batch
BuildApprovalsAbort(tool_calls, bad, headers) ==
    IF tool_calls = <<>> THEN <<>>
    ELSE LET c == Head(tool_calls)
         IN IF c.type = "mcp" /\ c.id \in bad THEN <<>>
            ELSE IF c.type = "mcp"
                 THEN <<ToolApproval(c.id, headers)>> \o BuildApprovalsAbort(Tail(tool_calls), bad, headers)
                 ELSE BuildApprovalsAbort(Tail(tool_calls), bad, headers)

RECURSIVE BuildApprovals(_, _, _)
\* the for loop over tool_calls: one approval per RequiredMcpToolCall whose
\* ToolApproval was built; a call whose construction raised (id in bad) is skipped
BuildApprovals(tool_calls, bad, headers) ==
    IF tool_calls = <<>> THEN <<>>
    ELSE LET c == Head(tool_calls)
             rest == BuildApprovals(Tail(tool_calls), bad, headers)
         IN IF c.type = "mcp" /\ c.id \notin bad
            THEN <<ToolApproval(c.id, headers)>> \o rest
            ELSE rest

RECURSIVE BuildErrors(_, _, _, _)
\* print(f"Error approving tool_call {tool_call.id}: {e}") for each caught failure
BuildErrors(tool_calls, bad, run, thread) ==
    IF tool_calls = <<>> THEN <<>>
    ELSE LET c == Head(tool_calls)
             rest == BuildErrors(Tail(tool_calls), bad, run, thread)
         IN IF c.type = "mcp" /\ c.id \in bad
            THEN <<Ev("build_error", run, thread, c.id, FALSE)>> \o rest
            ELSE rest

\* The body of `if run.status == "requires_action" and isinstance(...)`:
\* the calls it makes and how it leaves ("break", "raise", or "next": on to the
\* while test).  f names the call that raises in this step, if any.
ApprovalStep(snap, run, thread, headers, bad, f) ==
    IF ShouldCancel(snap.calls)
    THEN [events |-> <<Ev("cancel", run, thread, "none", f = "cancel")>>,
          how    |-> IF f = "cancel" THEN "raise" ELSE "break"]
    ELSE LET tool_approvals == BuildApprovals(snap.calls, bad, headers)
             errs == BuildErrors(snap.calls, bad, run, thread)
         IN IF tool_approvals # <<>>
            THEN [events |-> errs \o <<Ev("submit", run, thread, tool_approvals, f = "submit")>>,
                  how    |-> IF f = "submit" THEN "raise" ELSE "next"]
            ELSE [events |-> errs, how |-> "next"]

\* ------------------------------------------------------------- reporting the outcome
\* f"Error: Run failed - {run.last_error}"
FailedMsg(err) == <<"Error: Run failed - ", err>>
\* f"Error processing message: {str(e)}"
ErrorMsg(exc) == <<"Error processing message: ", exc>>
NoResponseMsg == <<"No response received from agent.">>
NotReadyMsg == <<"Agent is not properly initialized. Please reload the page.">>
\* print(f"Run completed with status: {run.status}"), print(f"Run failed: {run.last_error}")
StatusLine(status) == <<"Run completed with status: ", status>>
FailedLine(err) == <<"Run failed: ", err>>

Return(run, thread, value) == Ev("return", run, thread, value, FALSE)
Console(run, thread, line) == Ev("print", run, thread, line, FALSE)
\* control reaches the statement after the while loop holding run.status
LoopExit(run, thread, status) == Ev("loop_exit", run, thread, status, FALSE)

\* send_message without its try/except
OnExceptionPropagate(exc, run, thread) ==
    [pc |-> "crashed", events |-> <<Ev("uncaught", run, thread, exc, TRUE)>>]

\* An exception leaving the poll loop or any call around it.  Chat: caught by
\* send_message's `except Exception` and returned as a string.  CLI: nothing
\* catches it, the script dies with the traceback.
OnException(exc, run, thread) ==
    IF prog = "chat"
    THEN [pc |-> "done", events |-> <<Return(run, thread, ErrorMsg(exc))>>]
    ELSE [pc |-> "crashed", events |-> <<Ev("uncaught", run, thread, exc, TRUE)>>]

RECURSIVE FirstAssistantText(_)
\* for msg in messages: if msg.role == "assistant" and msg.text_messages:
\*     return msg.text_messages[-1].text.value
FirstAssistantText(listing) ==
    IF listing = <<>> THEN NoResponseMsg
    ELSE LET msg == Head(listing)
         IN IF msg.role = "assistant" /\ msg.text_messages # <<>>
            THEN msg.text_messages[Len(msg.text_messages)]
            ELSE FirstAssistantText(Tail(listing))

RECURSIVE Conversation(_, _, _)
\* print(f"{msg.role.upper()}: {last_text.text.value}") for each message with text
Conversation(listing, run, thread) ==
    IF listing = <<>> THEN <<>>
    ELSE LET msg == Head(listing)
             rest == Conversation(Tail(listing), run, thread)
         IN IF msg.text_messages # <<>>
            THEN <<Console(run, thread, <<msg.role, msg.text_messages[Len(msg.text_messages)]>>)>> \o rest
            ELSE rest

\* send_message without the `if run.status == "failed"` test
ChatReportIgnoresFailure(status, last_error, run, service, thread, f) ==
    IF f = "msg_list"
    THEN [pc |-> "done",
          events |-> <<Ev("msg_list", run, thread, "none", TRUE)>>
                     \o OnException(f, run, thread).events]
    ELSE [pc |-> "done",
          events |-> <<Ev("msg_list", run, thread, "none", FALSE),
                       Return(run, thread, FirstAssistantText(ListMessages(service, thread)))>>]

\* mainchat.py after the loop: the failed test, then the newest assistant text
ChatReport(status, last_error, run, service, thread, f) ==
    IF status = "failed"
    THEN [pc |-> "done", events |-> <<Return(run, thread, FailedMsg(last_error))>>]
    ELSE IF f = "msg_list"
         THEN [pc |-> OnException(f, run, thread).pc,
               events |-> <<Ev("msg_list", run, thread, "none", TRUE)>>
                          \o OnException(f, run, thread).events]
         ELSE [pc |-> "done",
               events |-> <<Ev("msg_list", run, thread, "none", FALSE),
                            Return(run, thread, FirstAssistantText(ListMessages(service, thread)))>>]

\* main.py after the loop: status line, failure line, run steps, conversation
CliReport(status, last_error, run, service, thread, f) ==
    LET lines == <<Console(run, thread, StatusLine(status))>> \o
                 (IF status = "failed" THEN <<Console(run, thread, FailedLine(last_error))>> ELSE <<>>)
        steps(raised) == Ev("steps_list", run, thread, "none", raised)
        list(raised) == Ev("msg_list", run, thread, "none", raised)
    IN IF f = "steps_list"
       THEN [pc |-> OnException(f, run, thread).pc,
             events |-> lines \o <<steps(TRUE)>> \o OnException(f, run, thread).events]
       ELSE IF f = "msg_list"
            THEN [pc |-> OnException(f, run, thread).pc,
                  events |-> lines \o <<steps(FALSE), list(TRUE)>>
                             \o OnException(f, run, thread).events]
            ELSE [pc |-> "done",
                  events |-> lines \o <<steps(FALSE), list(FALSE)>>
                             \o Conversation(ListMessages(service, thread), run, thread)]

\* control reaches the statement after the while loop
AfterLoop(status, last_error, run, service, thread, f) ==
    LET rep == IF prog = "chat" THEN ChatReport(status, last_error, run, service, thread, f)
               ELSE CliReport(status, last_error, run, service, thread, f)
    IN [pc |-> rep.pc, events |-> <<LoopExit(run, thread, status)>> \o rep.events]

\* ------------------------------------------------------------- start-up
\* initialize() of mainchat.py, and the same sequence at module level in main.py:
\* configuration check, client, MCP tool, agent, thread.  f names the call that raises.
Initialize(e, h, service, f) ==
    LET missing == MissingVars(e)
        c  == service.clients + 1
        h1 == [h EXCEPT !.project_client = c, !.mcp_tool = NewMcpTool(e), !.agents_client = c]
        s1 == [service EXCEPT !.clients = c]
        h2 == [h1 EXCEPT !.agent = s1.agents + 1]
        s2 == [s1 EXCEPT !.agents = @ + 1]
        h3 == [h2 EXCEPT !.thread = s2.threads + 1, !.mcp_tool.approval = "never"]
        s3 == [s2 EXCEPT !.threads = @ + 1]
        agent(raised) == Ev("create_agent", None, None, "none", raised)
        thread(raised) == Ev("create_thread", None, None, "none", raised)
    IN IF missing # <<>>
       THEN [ok |-> FALSE, handler |-> h, svc |-> service, events |-> <<>>,
             raised |-> <<MissingError(missing)>>]
       ELSE IF f = "create_agent"
            THEN [ok |-> FALSE, handler |-> h1, svc |-> s1, events |-> <<agent(TRUE)>>,
                  raised |-> <<>>]
            ELSE IF f = "create_thread"
                 THEN [ok |-> FALSE, handler |-> h2, svc |-> s2,
                       events |-> <<agent(FALSE), thread(TRUE)>>, raised |-> <<>>]
                 ELSE [ok |-> TRUE, handler |-> h3, svc |-> s3,
                       events |-> <<agent(FALSE), thread(FALSE)>>, raised |-> <<>>]

\* what runs.create may hand back: the status, and the error of a run that
\* failed at once
InitialOutcomes == {<<"queued", "none">>} \cup {<<"failed", e>> : e \in Errors}

\* From messages.create to the first test of the while condition (and, when the
\* run is created in a status that does not poll, through the report).
SendStart(h, service, f, first) ==
    IF h.agents_client = None \/ h.thread = None \/ h.agent = None \/ ~h.mcp_tool.made
    THEN [pc |-> OnException("AttributeError", None, None).pc, run |-> None, svc |-> service,
          events |-> OnException("AttributeError", None, None).events]
    ELSE IF f = "msg_create"
    THEN [pc |-> OnException(f, None, h.thread).pc, run |-> None, svc |-> service,
          events |-> <<Ev("msg_create", None, h.thread, "none", TRUE)>>
                     \o OnException(f, None, h.thread).events]
    ELSE LET s1 == [service EXCEPT !.msgs = Append(@,
                       [thread |-> h.thread, role |-> "user", run |-> None,
                        text_messages |-> <<<<"user">>>>])]
             r  == Len(s1.runs) + 1
             s2 == [s1 EXCEPT !.runs = Append(@, NewRun(h.thread, h.agent, first[1], first[2]))]
             created == Ev("msg_create", None, h.thread, "none", FALSE)
             ev2 == <<created, Ev("run_create", r, h.thread, first[1], FALSE)>>
             rep == AfterLoop(first[1], first[2], r, s2, h.thread, f)
         IN IF f = "run_create"
            THEN [pc |-> OnException(f, None, h.thread).pc, run |-> None, svc |-> s1,
                  events |-> <<created, Ev("run_create", None, h.thread, "none", TRUE)>>
                             \o OnException(f, None, h.thread).events]
            ELSE IF ShouldContinue(first[1])
                 THEN [pc |-> "sleep", run |-> r, svc |-> s2, events |-> ev2]
                 ELSE [pc |-> rep.pc, run |-> r, svc |-> s2, events |-> ev2 \o rep.events]

\* One iteration of the while loop, from the wake-up after sleep(1) to the next
\* sleep or out of the loop and through the report.
PollStep(r, h, service, f, bad) ==
    LET th == h.thread
    IN IF f = "get" \/ service.runs[r].thread # th
       THEN [pc |-> OnException("get", r, th).pc, svc |-> service,
             events |-> <<Ev("get", r, th, "none", TRUE)>> \o OnException("get", r, th).events]
       ELSE LET snap == Snapshot(service.runs[r])
                got  == <<Ev("get", r, th, snap, FALSE)>>
                a    == IF NeedsApproval(snap)
                        THEN ApprovalStep(snap, r, th, h.mcp_tool.headers, bad, f)
                        ELSE [events |-> <<>>, how |-> "next"]
                \* runs.cancel accepted: the service cancels the run
                s1   == IF a.how = "break"
                        THEN [service EXCEPT !.runs[r].status = "cancelled",
                                             !.runs[r].action = "none", !.runs[r].calls = <<>>]
                        ELSE service
                rep  == AfterLoop(snap.status, snap.last_error, r, s1, th, f)
            IN IF a.how = "raise"
               THEN [pc |-> OnException(f, r, th).pc, svc |-> service,
                     events |-> got \o a.events \o OnException(f, r, th).events]
               ELSE IF a.how = "next" /\ ShouldContinue(snap.status)
                    THEN [pc |-> "sleep", svc |-> service, events |-> got \o a.events]
                    ELSE [pc |-> rep.pc, svc |-> s1, events |-> got \o a.events \o rep.events]

Init ==
    /\ prog \in Progs
    /\ env \in [EnvVars -> EnvValues]
    /\ handler = NoHandler
    /\ sess = [s \in Sessions |-> NoSession]
    /\ tasks = [t \in TaskIds |-> NoTask]
    /\ nTasks = 0
    /\ valueErrors = <<>>
    /\ step = NoStep
    /\ svc = NoService

\* ------------------------------------------------------------- the scripts' steps
\* the calls that may raise; f = "none": no call of the step raises
StartFails == {"none", "create_agent", "create_thread"}
SendFails == {"none", "msg_create", "run_create", "steps_list", "msg_list"}
PollFails == {"none", "get", "cancel", "submit", "steps_list", "msg_list"}

\* the call f names was made in the step and raised
Raised(f, events) == \E i \in 1..Len(events) : events[i].raised /\ events[i].op = f

\* `with project_client:` closes the client when the block is left, normally or not
CloseOnExit(service, pc, client) ==
    IF pc \in {"done", "crashed"} THEN [service EXCEPT !.closed = @ \cup {client}]
    ELSE service

\* main.py from the top to the first sleep of the poll loop
CliStart ==
    /\ prog = "cli"
    /\ nTasks = 0
    /\ \E f \in StartFails \cup SendFails, first \in InitialOutcomes :
         LET i  == Initialize(env, handler, svc, f)
             m  == SendStart(i.handler, i.svc, f, first)
             x  == OnException(IF i.raised # <<>> THEN "ValueError" ELSE f, None, None)
         IN /\ f = "none" \/ Raised(f, i.events \o (IF i.ok THEN m.events ELSE <<>>))
            /\ nTasks' = 1
            /\ valueErrors' = valueErrors \o i.raised
            /\ handler' = i.handler
            /\ IF i.raised # <<>>
               THEN /\ tasks' = [tasks EXCEPT ![1].pc = x.pc]
                    /\ svc' = i.svc
                    /\ step' = [task |-> 1, events |-> x.events]
               ELSE IF ~i.ok
               THEN /\ tasks' = [tasks EXCEPT ![1].pc = x.pc]
                    /\ svc' = [i.svc EXCEPT !.closed = @ \cup {i.handler.project_client}]
                    /\ step' = [task |-> 1, events |-> i.events \o x.events]
               ELSE /\ tasks' = [tasks EXCEPT ![1].pc = m.pc, ![1].run = m.run]
                    /\ svc' = CloseOnExit(m.svc, m.pc, i.handler.project_client)
                    /\ step' = [task |-> 1, events |-> i.events \o m.events]
    /\ UNCHANGED <<prog, env, sess>>

\* on_chat_start up to the await that follows initialize()
ChatStartInitialize(s) ==
    /\ prog = "chat"
    /\ sess[s].pc = "idle"
    /\ \E f \in StartFails :
         LET i == Initialize(env, handler, svc, f)
         IN /\ f = "none" \/ Raised(f, i.events)
            /\ handler' = i.handler
            /\ svc' = i.svc
            /\ valueErrors' = valueErrors \o i.raised
            /\ sess' = [sess EXCEPT ![s].pc = IF i.ok THEN "init_ok" ELSE "init_failed"]
            /\ step' = [task |-> None, events |-> i.events]
    /\ UNCHANGED <<prog, env, tasks, nTasks>>

\* on_chat_start without the `if success:` test: every start marks the session ready
ChatStartFinishAlwaysReady(s) ==
    /\ prog = "chat"
    /\ sess[s].pc \in {"init_ok", "init_failed"}
    /\ sess' = [sess EXCEPT ![s] = [pc |-> "open", agent_ready |-> TRUE,
                                    agent_id |-> handler.agent, thread_id |-> handler.thread]]
    /\ step' = NoStep
    /\ UNCHANGED <<prog, env, handler, tasks, nTasks, valueErrors, svc>>

\* on_chat_start after that await: the session's cl.user_session entries
ChatStartFinish(s) ==
    /\ prog = "chat"
    /\ sess[s].pc \in {"init_ok", "init_failed"}
    /\ sess' = [sess EXCEPT ![s] =
                  IF sess[s].pc = "init_ok"
                  THEN [pc |-> "open", agent_ready |-> TRUE,
                        agent_id |-> handler.agent, thread_id |-> handler.thread]
                  ELSE [@ EXCEPT !.pc = "open", !.agent_ready = FALSE]]
    /\ step' = NoStep
    /\ UNCHANGED <<prog, env, handler, tasks, nTasks, valueErrors, svc>>

\* on_message on a session whose agent_ready is not set: the refusal
OnMessageNotReady(s) ==
    /\ prog = "chat"
    /\ sess[s].pc \in {"init_ok", "init_failed", "open"}
    /\ nTasks < Cardinality(TaskIds)
    /\ ~sess[s].agent_ready
    /\ nTasks' = nTasks + 1
    /\ tasks' = [tasks EXCEPT ![nTasks + 1] = [NoTask EXCEPT !.sess = s, !.pc = "done"]]
    /\ step' = [task |-> nTasks + 1, events |-> <<Ev("refuse", None, None, NotReadyMsg, FALSE)>>]
    /\ UNCHANGED <<prog, env, handler, sess, valueErrors, svc>>

\* on_message: the agent_ready test passed, then send_message up to its first await
OnMessage(s) ==
    /\ prog = "chat"
    /\ sess[s].pc \in {"init_ok", "init_failed", "open"}
    /\ nTasks < Cardinality(TaskIds)
    /\ sess[s].agent_ready
    /\ \E f \in SendFails, first \in InitialOutcomes :
         LET m == SendStart(handler, svc, f, first)
         IN /\ f = "none" \/ Raised(f, m.events)
            /\ nTasks' = nTasks + 1
            /\ tasks' = [tasks EXCEPT ![nTasks + 1] = [pc |-> m.pc, sess |-> s, run |-> m.run]]
            /\ svc' = m.svc
            /\ step' = [task |-> nTasks + 1, events |-> m.events]
    /\ UNCHANGED <<prog, env, handler, sess, valueErrors>>

\* the ids of the pending tool calls whose ToolApproval the loop will try to build
McpIds(calls) == {calls[i].id : i \in {j \in 1..Len(calls) : calls[j].type = "mcp"}}

\* a task wakes from sleep(1) and runs one iteration of the poll loop
Poll(t) ==
    /\ tasks[t].pc = "sleep"
    /\ \E f \in PollFails, bad \in SUBSET McpIds(svc.runs[tasks[t].run].calls) :
         LET m == PollStep(tasks[t].run, handler, svc, f, bad)
         IN /\ f = "none" \/ Raised(f, m.events)
            /\ tasks' = [tasks EXCEPT ![t].pc = m.pc]
            /\ svc' = IF prog = "cli" THEN CloseOnExit(m.svc, m.pc, handler.project_client)
                      ELSE m.svc
            /\ step' = [task |-> t, events |-> m.events]
    /\ UNCHANGED <<prog, env, handler, sess, nTasks, valueErrors>>

\* on_chat_end: cleanup() closes the shared handler's client
ChatEnd(s) ==
    /\ prog = "chat"
    /\ sess[s].pc = "open"
    /\ sess' = [sess EXCEPT ![s].pc = "ended"]
    /\ svc' = IF handler.project_client # None
              THEN [svc EXCEPT !.closed = @ \cup {handler.project_client}]
              ELSE svc
    /\ step' = NoStep
    /\ UNCHANGED <<prog, env, handler, tasks, nTasks, valueErrors>>

\* ------------------------------------------------------------- the service's steps
RunIds == 1..Len(svc.runs)

SetRun(r, new) ==
    /\ svc' = [svc EXCEPT !.runs[r] = new]
    /\ step' = NoStep
    /\ UNCHANGED <<prog, env, handler, sess, tasks, nTasks, valueErrors>>

\* queued -> in_progress
SvcBegin(r) ==
    /\ svc.runs[r].status = "queued"
    /\ SetRun(r, [svc.runs[r] EXCEPT !.status = "in_progress"])

\* in_progress -> requires_action, with the pending action the service decides
SvcRequireAction(r) ==
    /\ svc.runs[r].status = "in_progress"
    /\ \/ SetRun(r, [svc.runs[r] EXCEPT !.status = "requires_action", !.action = "outputs"])
       \/ \E n \in 0..MaxCalls : \E types \in [1..n -> {"mcp", "function"}] :
            SetRun(r, [svc.runs[r] EXCEPT
                   !.status = "requires_action", !.action = "approval",
                   !.calls = [i \in 1..n |-> [id |-> i, type |-> types[i]]]])

\* requires_action -> in_progress
SvcResume(r) ==
    /\ svc.runs[r].status = "requires_action"
    /\ SetRun(r, [svc.runs[r] EXCEPT !.status = "in_progress", !.action = "none", !.calls = <<>>])

\* an in_progress run leaves its assistant message in the thread (once)
SvcReply(r) ==
    /\ svc.runs[r].status = "in_progress"
    /\ \A k \in 1..Len(svc.msgs) : svc.msgs[k].run # r
    /\ \E text \in {<<>>, <<<<"reply", r>>>>} :
         /\ svc' = [svc EXCEPT !.msgs = Append(@, [thread |-> svc.runs[r].thread,
                                    role |-> "assistant", run |-> r, text_messages |-> text])]
         /\ step' = NoStep
         /\ UNCHANGED <<prog, env, handler, sess, tasks, nTasks, valueErrors>>

\* in_progress -> completed
SvcComplete(r) ==
    /\ svc.runs[r].status = "in_progress"
    /\ SetRun(r, [svc.runs[r] EXCEPT !.status = "completed"])

\* in_progress -> failed, with the error the service reports
SvcFail(r) ==
    /\ svc.runs[r].status = "in_progress"
    /\ \E err \in Errors :
         SetRun(r, [svc.runs[r] EXCEPT !.status = "failed", !.last_error = err])

\* one message per process: the CLI's only message, the chat's first
Next ==
    \/ CliStart
    \/ \E s \in Sessions : ChatStartInitialize(s)
    \/ \E s \in Sessions : ChatStartFinish(s)
    \/ \E s \in Sessions : nTasks = 0 /\ OnMessageNotReady(s)
    \/ \E s \in Sessions : nTasks = 0 /\ OnMessage(s)
    \/ \E s \in Sessions : ChatEnd(s)
    \/ \E t \in TaskIds : Poll(t)
    \/ \E r \in RunIds : SvcBegin(r)
    \/ \E r \in RunIds : SvcRequireAction(r)
    \/ \E r \in RunIds : SvcResume(r)
    \/ \E r \in RunIds : SvcReply(r)
    \/ \E r \in RunIds : SvcComplete(r)
    \/ \E r \in RunIds : SvcFail(r)

Spec == Init /\ [][Next]_vars

\* one chat session with every variable configured, and as many messages as
\* there are tasks, each handled by its own task
InitTurns ==
    /\ Init
    /\ prog = "chat"
    /\ \A v \in EnvVars : env[v] = "set"

NextTurns ==
    \/ ChatStartInitialize(1)
    \/ ChatStartFinish(1)
    \/ OnMessageNotReady(1)
    \/ OnMessage(1)
    \/ ChatEnd(1)
    \/ \E t \in TaskIds : Poll(t)
    \/ \E r \in RunIds : SvcBegin(r)
    \/ \E r \in RunIds : SvcRequireAction(r)
    \/ \E r \in RunIds : SvcResume(r)
    \/ \E r \in RunIds : SvcReply(r)
    \/ \E r \in RunIds : SvcComplete(r)
    \/ \E r \in RunIds : SvcFail(r)

SpecTurns == InitTurns /\ [][NextTurns]_vars
\* ------------------------------------------------------------- properties
\* the step just taken, and the places of its events
E == step.events
Ops(op) == {i \in 1..Len(E) : E[i].op = op}
\* the status fetches of the step that returned a run
Gets == {i \in 1..Len(E) : E[i].op = "get" /\ ~E[i].raised}
AsksApproval(i) == E[i].arg.status = "requires_action" /\ E[i].arg.action = "approval"
SomeCallRaised == \E i \in 1..Len(E) : E[i].raised
LeftLoop == {"done", "crashed"}
PollingStatuses == {"queued", "in_progress", "requires_action"}
\* the ids a submitted batch approves
BatchIds(batch) == {batch[m].tool_call_id : m \in 1..Len(batch)}
\* the MCP tool calls of a pending list, and those the step logged a build error for
McpCallIds(calls) == {calls[k].id : k \in {n \in 1..Len(calls) : calls[n].type = "mcp"}}
BuildFailedIds == {E[j].arg : j \in Ops("build_error")}

\* A task that has left the poll loop (returned, or died) never acts again: no
\* fetch, submission, cancel or any other call is made for its run.
LeftTasksStayLeft ==
    \A t \in TaskIds :
        tasks[t].pc \in LeftLoop => /\ tasks'[t] = tasks[t]
                                    /\ step'.task = t => step' = step

\* C1 (as stated): a fetch returning requires_action with a tool-approval action
\* and a non-empty tool-call list is followed, in the same iteration, by exactly
\* one submit call whose batch holds exactly one approval for every tool call.
C1_EveryToolCallApprovedOnce ==
    \A i \in Gets :
        (AsksApproval(i) /\ E[i].arg.calls # <<>>) =>
            /\ Cardinality(Ops("submit")) = 1
            /\ \A j \in Ops("submit") : \A k \in 1..Len(E[i].arg.calls) :
                 Cardinality({m \in 1..Len(E[j].arg) :
                                 E[j].arg[m].tool_call_id = E[i].arg.calls[k].id}) = 1

\* C1 (amended): in that iteration the loop makes exactly one submit call when
\* some tool call of the list is an MCP tool call whose approval was built, and
\* none otherwise; the batch holds exactly one approval for each such tool call
\* and nothing else.
C1_EveryBuiltMcpCallApprovedOnce ==
    \A i \in Gets :
        (AsksApproval(i) /\ E[i].arg.calls # <<>>) =>
            LET built == McpCallIds(E[i].arg.calls) \ BuildFailedIds
            IN /\ Cardinality(Ops("submit")) = (IF built = {} THEN 0 ELSE 1)
               /\ \A j \in Ops("submit") :
                    /\ E[j].run = E[i].run
                    /\ BatchIds(E[j].arg) = built
                    /\ Len(E[j].arg) = Cardinality(built)

\* C1 witness: a list of two tool calls, both approved in one batch
C1_Witness ==
    \E i \in Gets : \E j \in Ops("submit") :
        AsksApproval(i) /\ Len(E[i].arg.calls) = 2 /\ Len(E[j].arg) = 2

\* C2, within the iteration: the empty tool-call list is answered by exactly
\* one cancel, right after the fetch, with no submission and no second fetch,
\* and the task is out of the loop.
C2_CancelAndBreak ==
    \A i \in Gets :
        (AsksApproval(i) /\ E[i].arg.calls = <<>>) =>
            /\ Cardinality(Ops("cancel")) = 1
            /\ i < Len(E) /\ E[i + 1].op = "cancel" /\ E[i + 1].run = E[i].run
            /\ Ops("submit") = {}
            /\ Cardinality(Ops("get")) = 1
            /\ tasks[step.task].pc \in LeftLoop

\* C2: an empty tool-call list under requires_action is answered by exactly one
\* cancel and the loop is left in the same iteration; nothing is fetched,
\* submitted or cancelled for that run afterwards.
C2_EmptyToolCallsCancelOnce == []C2_CancelAndBreak /\ [][LeftTasksStayLeft]_vars

\* C2 witness: the cancel was issued and accepted
C2_Witness ==
    \E i \in Gets : AsksApproval(i) /\ E[i].arg.calls = <<>> /\ ~SomeCallRaised

\* C3, within the step: a status outside the polling set, from a fetch or from
\* the run's creation, is followed at once by the loop's exit and the report.
C3_ExitAndReport ==
    LET exits(i, status) ==
            /\ i < Len(E) /\ E[i + 1].op = "loop_exit" /\ E[i + 1].arg = status
            /\ Ops("submit") = {} /\ Ops("cancel") = {}
            /\ Cardinality(Ops("get")) <= 1
            /\ tasks[step.task].pc \in LeftLoop
            /\ IF prog = "chat" THEN E[Len(E)].op = "return"
               ELSE /\ i + 1 < Len(E)
                    /\ E[i + 2] = Console(E[i].run, E[i].thread, <<"Run completed with status: ", status>>)
    IN /\ \A i \in Gets : E[i].arg.status \notin PollingStatuses => exits(i, E[i].arg.status)
       /\ \A i \in Ops("run_create") :
            (~E[i].raised /\ E[i].arg \notin PollingStatuses) => exits(i, E[i].arg)

\* C3: the loop ends on any status outside {queued, in_progress,
\* requires_action}; no fetch, submission or cancel follows for that run.
C3_TerminatesOutsidePollingStatuses == []C3_ExitAndReport /\ [][LeftTasksStayLeft]_vars

\* C3 witness: a fetch returned completed
C3_Witness == \E i \in Gets : E[i].arg.status = "completed"

\* C4: with a required variable absent or empty, start-up fails before any
\* client, agent, thread, message or run exists, and each error raised lists
\* exactly the missing required variables; the token alone never fails it.
C4_MissingVariablesFailFast ==
    LET missing == {v \in Range(required_vars) : env[v] \in {"absent", "empty"}}
        started == IF prog = "cli" THEN nTasks
                   ELSE Cardinality({s \in Sessions : sess[s].pc # "idle"})
    IN /\ Len(valueErrors) = (IF missing = {} THEN 0 ELSE started)
       /\ \A i \in 1..Len(valueErrors) :
            /\ valueErrors[i][1] = "Missing required environment variables: "
            /\ Range(valueErrors[i][2]) = missing
            /\ Len(valueErrors[i][2]) = Cardinality(missing)
       /\ missing # {} =>
            /\ svc = NoService
            /\ handler = NoHandler
            /\ \A i \in 1..Len(E) : E[i].op \in {"refuse", "uncaught"}
            /\ \A s \in Sessions : ~sess[s].agent_ready
            /\ prog = "cli" /\ nTasks = 1 => tasks[1].pc = "crashed"

\* C4 witness: two required variables missing, the token set, start-up attempted
C4_Witness ==
    /\ valueErrors # <<>>
    /\ Len(valueErrors[1][2]) = 2
    /\ env["MCP_SERVER_TOKEN"] = "set"

\* C5: a loop that ends with status failed reports the service's last_error of
\* that run unchanged; the chat returns it instead of any message text.
C5_FailedRunReportsLastError ==
    \A i \in Ops("loop_exit") :
        E[i].arg = "failed" =>
            LET err == svc.runs[E[i].run].last_error
            IN /\ err \in Errors
               /\ IF prog = "chat"
                  THEN /\ Cardinality(Ops("return")) = 1
                       /\ E[Len(E)].op = "return"
                       /\ E[Len(E)].arg = <<"Error: Run failed - ", err>>
                       /\ Ops("msg_list") = {}
                  ELSE \E j \in Ops("print") : E[j].arg = <<"Run failed: ", err>>

\* C5 witness: a chat poll fetched failed while the thread holds an assistant text
C5_Witness ==
    /\ prog = "chat"
    /\ \E i \in Gets : E[i].arg.status = "failed"
    /\ \E k \in 1..Len(svc.msgs) : svc.msgs[k].role = "assistant" /\ svc.msgs[k].text_messages # <<>>

\* C6: in the chat no call of send_message lets an exception escape: the task
\* ends with a returned string, the error string when a call raised.
C6_SendMessageNeverRaises ==
    prog = "chat" =>
        /\ \A t \in TaskIds : tasks[t].pc # "crashed"
        /\ Ops("uncaught") = {}
        /\ (step.task \in TaskIds /\ Ops("refuse") = {}) =>
             /\ tasks[step.task].pc = "done" => (E # <<>> /\ E[Len(E)].op = "return")
             /\ \A i \in 1..Len(E) :
                  E[i].raised => /\ tasks[step.task].pc = "done"
                                 /\ E[Len(E)] = Return(E[i].run, E[i].thread,
                                                  <<"Error processing message: ", E[i].op>>)

\* C6 witness: the approval submission raised inside a chat poll
C6_Witness == prog = "chat" /\ \E i \in Ops("submit") : E[i].raised

\* C7: a failure building one tool call's approval is confined to that tool
\* call: the other MCP tool calls of the list are approved in the same
\* iteration's batch, and the failure alone does not end the loop.
C7_BuildFailureDoesNotAbortBatch ==
    \A i \in Gets :
        (AsksApproval(i) /\ Ops("build_error") # {}) =>
            LET others == McpCallIds(E[i].arg.calls) \ BuildFailedIds
            IN /\ BuildFailedIds \subseteq McpCallIds(E[i].arg.calls)
               /\ others # {} => \E j \in Ops("submit") : BatchIds(E[j].arg) = others
               /\ ~SomeCallRaised => tasks[step.task].pc = "sleep"

\* C7 witness: one approval failed to build, the other was submitted, the loop goes on
C7_Witness ==
    /\ Ops("build_error") # {}
    /\ \E j \in Ops("submit") : Len(E[j].arg) = 1
    /\ tasks[step.task].pc = "sleep"

\* C8: in the chat, per session, at most one run created by send_message on
\* the session's thread is in a status that is still polled.
C8_OneActiveRunPerSession ==
    prog = "chat" =>
        \A s \in Sessions :
            Cardinality({t \in TaskIds :
                /\ tasks[t].sess = s
                /\ tasks[t].run # None
                /\ svc.runs[tasks[t].run].thread = sess[s].thread_id
                /\ svc.runs[tasks[t].run].status \in PollingStatuses}) <= 1

\* C9 (as stated): the status held when control leaves the loop is never one
\* of queued, in_progress, requires_action.
C9_ReportedStatusIsTerminal ==
    \A i \in Ops("loop_exit") : E[i].arg \notin PollingStatuses

\* C9 (amended): the loop is left only on a fetched status outside the polling
\* set, by the cancel-and-break of an empty tool-call list, or by an exception;
\* the status held after the loop is outside the polling set or is the
\* requires_action of the run just cancelled.
C9_ReportedStatusIsTerminalOrCancelled ==
    /\ \A i \in Ops("loop_exit") :
         \/ E[i].arg \notin PollingStatuses
         \/ /\ E[i].arg = "requires_action"
            /\ i >= 3
            /\ E[i - 1].op = "cancel" /\ ~E[i - 1].raised
            /\ (i - 2) \in Gets /\ AsksApproval(i - 2) /\ E[i - 2].arg.calls = <<>>
    /\ (step.task \in TaskIds /\ Ops("get") # {} /\ tasks[step.task].pc \in LeftLoop) =>
         (Ops("loop_exit") # {} \/ SomeCallRaised)

\* C9 witness: the loop is left by cancel-and-break holding requires_action
C9_Witness == \E i \in Ops("loop_exit") : E[i].arg = "requires_action"

\* C10, within the step: a cancel call directly follows a fetch of the same run
\* that returned requires_action with a tool-approval action and no tool calls.
C10_CancelFollowsEmptyList ==
    \A j \in Ops("cancel") :
        /\ (j - 1) \in Gets
        /\ AsksApproval(j - 1) /\ E[j - 1].arg.calls = <<>>
        /\ E[j - 1].run = E[j].run

\* C10, at the service: a run becomes cancelled only by such a cancel call
C10_CancelledOnlyByThatCall ==
    \A r \in RunIds :
        (svc.runs[r].status # "cancelled" /\ svc'.runs[r].status = "cancelled") =>
            /\ svc.runs[r].status = "requires_action"
            /\ svc.runs[r].action = "approval"
            /\ svc.runs[r].calls = <<>>
            /\ \E j \in 1..Len(step'.events) :
                 step'.events[j].op = "cancel" /\ step'.events[j].run = r

\* C10: a run is cancelled by this code only in the empty-tool-calls case.
C10_CancelOnlyOnEmptyToolCalls == []C10_CancelFollowsEmptyList /\ [][C10_CancelledOnlyByThatCall]_vars

\* C10 witness: a cancel was issued and the service cancelled the run
C10_Witness ==
    \E j \in Ops("cancel") : ~E[j].raised /\ svc.runs[E[j].run].status = "cancelled"

\* the headers the tool is given at its creation under this environment
ConfiguredHeaders ==
    IF env["MCP_SERVER_TOKEN"] = "set" THEN <<"Authorization", "Bearer token">> ELSE <<>>

\* C11: every approval of every submit call has approve = TRUE and carries the
\* headers configured at tool creation (the bearer header when the token is
\* set, none when it is absent), and the tool's headers never change once the
\* tool exists.
C11_ApprovalsCarryConfiguredHeaders ==
    /\ \A j \in Ops("submit") : \A m \in 1..Len(E[j].arg) :
         /\ E[j].arg[m].approve = TRUE
         /\ E[j].arg[m].headers = ConfiguredHeaders
    /\ handler.mcp_tool.made => handler.mcp_tool.headers = ConfiguredHeaders
    /\ env["MCP_SERVER_TOKEN"] = "absent" =>
         \A j \in Ops("submit") : \A m \in 1..Len(E[j].arg) : E[j].arg[m].headers = <<>>

\* C11 witness: with the token set, a chat poll submits an approval after a
\* second session start has replaced the tool
C11_Witness ==
    /\ env["MCP_SERVER_TOKEN"] = "set"
    /\ svc.clients = 2
    /\ \E j \in Ops("submit") : ~E[j].raised /\ E[j].arg[1].headers # <<>>

\* the run creations of the step that handed back a run
Created == {i \in Ops("run_create") : ~E[i].raised}
\* the statuses of the step, fetched or handed back by the run's creation, that are failed
FailedSeen ==
    {i \in Gets : E[i].arg.status = "failed"} \cup {i \in Created : E[i].arg = "failed"}

\* C12 (as stated): every message whose sending was begun has exactly one run
\* created for it, and a status failed is followed by no run creation,
\* submission or cancel.
C12_ExactlyOneRunPerMessage ==
    /\ Ops("msg_create") # {} => Cardinality(Created) = 1
    /\ \A i \in FailedSeen :
         \A j \in (i + 1)..Len(E) : E[j].op \notin {"run_create", "submit", "cancel"}

\* C12, within the step: at most one run creation call per message, made right
\* after the message was created; it hands back one run unless it raises; the
\* runs at the service are exactly the runs the tasks hold.  A status failed is
\* followed by the report only, and the task is out of the loop.
C12_OneCreationAndFailedEnds ==
    /\ Cardinality(Ops("run_create")) <= 1
    /\ \A j \in Ops("run_create") :
         /\ j > 1 /\ E[j - 1].op = "msg_create" /\ ~E[j - 1].raised
         /\ Ops("get") = {}
    /\ \A i \in Ops("msg_create") :
         IF E[i].raised THEN Ops("run_create") = {}
         ELSE Cardinality(Ops("run_create")) = 1
    /\ Len(svc.runs) = Cardinality({t \in TaskIds : tasks[t].run # None})
    /\ \A t, u \in TaskIds : (t # u /\ tasks[t].run # None) => tasks[t].run # tasks[u].run
    /\ \A i \in FailedSeen :
         /\ \A j \in (i + 1)..Len(E) : E[j].op \in {"loop_exit", "return", "print", "steps_list",
                                                     "msg_list", "uncaught"}
         /\ tasks[step.task].pc \in LeftLoop
         /\ Ops("submit") = {} /\ Ops("cancel") = {}

\* C12, between steps: a run appears at the service only in the step that
\* starts a message's task, one at a time, and a task never changes its run
C12_RunsOnlyAtSend ==
    /\ Len(svc'.runs) # Len(svc.runs) =>
         /\ Len(svc'.runs) = Len(svc.runs) + 1
         /\ nTasks' = nTasks + 1
         /\ tasks'[nTasks'].run = Len(svc'.runs)
    /\ \A t \in TaskIds : tasks[t].pc # "free" => tasks'[t].run = tasks[t].run

\* C12 (amended): at most one run is created per message, exactly one unless
\* creating the message or the run raised; a failed run is reported and the
\* message's task makes no further run creation, submission, cancel or fetch.
C12_FailedRunNeverRetried ==
    /\ []C12_OneCreationAndFailedEnds
    /\ [][C12_RunsOnlyAtSend /\ LeftTasksStayLeft]_vars

\* C12 witness: the script's poll fetched failed for the run of its one message
C12_Witness ==
    /\ prog = "cli"
    /\ \E i \in Gets : E[i].arg.status = "failed" /\ E[i].run = tasks[1].run
    /\ Len(svc.runs) = 1

\* a session start whose initialize() returned True / returned at all in this step
InitializeSucceeded == \E s \in Sessions : sess[s].pc = "idle" /\ sess'[s].pc = "init_ok"
InitializeRan == \E s \in Sessions : sess[s].pc = "idle" /\ sess'[s].pc \in {"init_ok", "init_failed"}
SomeSessionReady == \E s \in Sessions : sess[s].agent_ready \/ sess[s].pc = "init_ok"

\* C13 (as stated): the agent/thread pair that send_message uses is the pair
\* installed by the most recent successful initialize: once a session is
\* ready, the shared pair changes only in a step whose initialize succeeded.
C13_PairIsLastSuccessfulInitialize ==
    [][(/\ prog = "chat"
        /\ SomeSessionReady
        /\ (handler'.agent # handler.agent \/ handler'.thread # handler.thread))
       => InitializeSucceeded]_vars

\* C13, within the step: every call of send_message, whatever its session,
\* uses the thread and agent the shared handler holds at that moment
C13_SendsUseHandlerPair ==
    prog = "chat" =>
        /\ \A i \in Ops("msg_create") \cup Ops("run_create") \cup Ops("get") \cup Ops("submit")
                   \cup Ops("cancel") \cup Ops("msg_list") : E[i].thread = handler.thread
        /\ \A i \in Created : /\ svc.runs[E[i].run].thread = handler.thread
                               /\ svc.runs[E[i].run].agent = handler.agent

\* C13, between steps: the shared thread changes only by an initialize that
\* succeeded, which installs a fresh agent and a fresh thread; the shared agent
\* changes by any initialize whose create_agent call returned, also one that
\* then failed at the thread's creation
C13_PairChangesOnlyAtInitialize ==
    prog = "chat" =>
        /\ InitializeSucceeded => /\ handler'.thread = svc'.threads /\ svc'.threads = svc.threads + 1
                                  /\ handler'.agent = svc'.agents /\ svc'.agents = svc.agents + 1
        /\ handler'.thread # handler.thread => InitializeSucceeded
        /\ handler'.agent # handler.agent =>
             /\ InitializeRan
             /\ handler'.agent = svc'.agents /\ svc'.agents = svc.agents + 1

\* C13 (amended): all sessions share the handler's current agent and thread;
\* the thread is the one of the most recent successful initialize, the agent
\* the one of the most recent initialize whose agent creation succeeded.
C13_SessionsShareHandlerPair ==
    /\ []C13_SendsUseHandlerPair
    /\ [][C13_PairChangesOnlyAtInitialize]_vars

\* C13 witness: a message of session 1, started on thread 1, creates its run on
\* the thread that the start of session 2 installed
C13_Witness ==
    /\ sess[1].agent_ready /\ sess[1].thread_id = 1
    /\ handler.thread = 2
    /\ step.task \in TaskIds /\ tasks[step.task].sess = 1
    /\ \E i \in Created : svc.runs[E[i].run].thread = 2

\* the places of the submit calls among a step's events
Submits(events) == {i \in 1..Len(events) : events[i].op = "submit"}

\* C14: a tool call approved in one iteration of the loop is not approved again
\* in the next iteration when the service has not touched the run in between
\* (it still reports requires_action with the same pending tool calls).
C14_NoToolCallApprovedTwice ==
    [][\A i \in Submits(step.events) : \A j \in Submits(step'.events) :
          (/\ ~step.events[i].raised
           /\ step'.events[j].run = step.events[i].run
           /\ svc'.runs[step.events[i].run] = svc.runs[step.events[i].run])
          => BatchIds(step'.events[j].arg) \cap BatchIds(step.events[i].arg) = {}]_vars

\* C15: in the chat, an assistant text returned by send_message is the text of
\* an assistant message produced by the run created for this very message.
C15_ReturnedTextIsOfThisRun ==
    prog = "chat" =>
        \A i \in Ops("return") :
            E[i].arg[1] = "reply" =>
                /\ E[i].arg[2] = E[i].run
                /\ \E k \in 1..Len(svc.msgs) :
                     /\ svc.msgs[k].run = E[i].run /\ svc.msgs[k].role = "assistant"
                     /\ svc.msgs[k].text_messages # <<>>

\* C16: in the chat, while a session with agent_ready = TRUE is live the shared
\* client is not closed, and no call of send_message is made through a closed
\* client.
C16_ClientOpenWhileSessionLive ==
    prog = "chat" =>
        /\ \A s \in Sessions :
             (sess[s].pc = "open" /\ sess[s].agent_ready) => handler.project_client \notin svc.closed
        /\ \A i \in Ops("msg_create") \cup Ops("run_create") \cup Ops("get") :
             handler.agents_client \notin svc.closed

\* C17: in the chat, the calls send_message makes for a message of a ready
\* session use the thread recorded in that session at its start, and the run
\* is created for the agent recorded there.
C17_SessionIdsAreIdsUsed ==
    (prog = "chat" /\ step.task \in TaskIds /\ tasks[step.task].sess \in Sessions) =>
        LET s == tasks[step.task].sess
        IN sess[s].agent_ready =>
            /\ \A i \in Ops("msg_create") \cup Ops("run_create") \cup Ops("get") :
                 E[i].thread = sess[s].thread_id
            /\ \A i \in Created : svc.runs[E[i].run].agent = sess[s].agent_id

\* C18, in every state of the chat: while some session is ready the shared
\* handler's client, agents client, agent, thread and MCP tool are all set;
\* the calls of send_message are made only for a ready session and never find
\* a field unset; a refused message makes no call at all.
C18_HandlerSetWhileReady ==
    prog = "chat" =>
        /\ (\E s \in Sessions : sess[s].agent_ready) =>
             /\ handler.project_client # None /\ handler.agents_client # None
             /\ handler.agent # None /\ handler.thread # None
             /\ handler.mcp_tool.made
        /\ (step.task \in TaskIds /\ Ops("refuse") = {}) => sess[tasks[step.task].sess].agent_ready
        /\ \A i \in Ops("return") : E[i].arg # ErrorMsg("AttributeError")
        /\ Ops("refuse") # {} =>
             /\ Len(E) = 1
             /\ ~sess[tasks[step.task].sess].agent_ready
             /\ tasks[step.task].run = None

\* C18, between steps: a message on a session that is not ready leaves the
\* service as it was (no message, no run), and one on a ready session is the
\* only way a message or a run appears
C18_RefusedMessageLeavesService ==
    prog = "chat" =>
        /\ (\E i \in 1..Len(step'.events) : step'.events[i].op = "refuse") => svc' = svc
        /\ (Len(svc'.runs) # Len(svc.runs)
              \/ Len(SelectSeq(svc'.msgs, LAMBDA m : m.role = "user"))
                   # Len(SelectSeq(svc.msgs, LAMBDA m : m.role = "user")))
             => /\ nTasks' = nTasks + 1
                /\ sess[tasks'[nTasks'].sess].agent_ready

\* C18: send_message is called only for a ready session; while a session is
\* ready the handler's fields are all set, also after a later initialize
\* failed part-way; a message on a session that is not ready creates nothing.
C18_ReadyImpliesHandlerSet ==
    /\ []C18_HandlerSetWhileReady
    /\ [][C18_RefusedMessageLeavesService]_vars

\* C18 witness: session 1 is ready, the start of session 2 failed at the
\* thread's creation after replacing client, tool and agent, and a message of
\* session 1 then creates its run
C18_Witness ==
    /\ sess[1].agent_ready /\ ~sess[2].agent_ready /\ sess[2].pc \in {"init_failed", "open"}
    /\ handler.agent = 2 /\ handler.thread = 1
    /\ step.task \in TaskIds /\ tasks[step.task].sess = 1
    /\ Created # {}
====
